---- MODULE Spec2Model ----
(***************************************************************************)
(* Reference finding over a layered lanelet map                            *)
(* (lanelet2_extension, lib/query.cpp and utility/query.h).                *)
(*                                                                         *)
(* The five overloads of recurse() are modelled as a call stack machine:   *)
(* a frame is one activation of recurse(), its todo the calls its loops    *)
(* still have to make, and the insertion at the end of the body happens    *)
(* when the frame returns.  The map is an immutable snapshot chosen in     *)
(* Init.  Reverse lookups (findUsages) are the inverse of the containment  *)
(* stored in the map and also report owners that are no longer in their    *)
(* layer (stale owners); exists() consults the layer only.  Rule elements   *)
(* refer to line strings.  findReferences is called twice on each map.     *)
(***************************************************************************)
EXTENDS Integers, Sequences, FiniteSets, TLC

VARIABLES ll_Map, prim, stack, rfs, pc, calls, first

vars == <<ll_Map, prim, stack, rfs, pc, calls, first>>

----------------------------------------------------------------------------
(* Bounds of the explored maps *)

NumPoints == 1
NumCurves == 2
NumEach == 1
NumAreas == 1
NumRegems == 1
MaxInnerLoops == 1
MaxStale == 1
LaneCurves == 3
LaneLanelets == 2

----------------------------------------------------------------------------
(* enum direction {CHECK_CHILD, CHECK_PARENT} *)

CHECK_CHILD == "CHECK_CHILD"
CHECK_PARENT == "CHECK_PARENT"
direction == {CHECK_CHILD, CHECK_PARENT}

Kinds == {"Point", "LineString", "Lanelet", "Area", "RegulatoryElement"}

(* Layer of a primitive kind in the ownership order
   Point -> LineString -> RegulatoryElement -> {Lanelet, Area}. *)
Rank(k) ==
  CASE k = "Point" -> 0
    [] k = "LineString" -> 1
    [] k = "RegulatoryElement" -> 2
    [] k = "Lanelet" -> 3
    [] k = "Area" -> 3

----------------------------------------------------------------------------
(* The map: containment as stored in the primitives, and the layers. *)

Bounded(S, n) == {T \in SUBSET S : Cardinality(T) <= n}

InnerBounds(C) ==
  {<<>>} \cup
  (IF MaxInnerLoops >= 1 THEN {<<S>> : S \in (SUBSET C) \ {{}}} ELSE {}) \cup
  (IF MaxInnerLoops >= 2
     THEN {<<S, T>> : S \in (SUBSET C) \ {{}}, T \in (SUBSET C) \ {{}}}
     ELSE {})

StaleSets(C, L, A, R, n) ==
  Bounded(({"LineString"} \X C) \cup ({"Lanelet"} \X L) \cup
          ({"Area"} \X A) \cup ({"RegulatoryElement"} \X R), n)

Layer(k, U, st) == {i \in U : <<k, i>> \notin st}

MapsOver(P, C, L, A, R, n) ==
  { [ points |-> P,
      lsPoints |-> lp,
      llBounds |-> lb,
      llRegems |-> lr,
      arOuter |-> ao,
      arInner |-> ai,
      arRegems |-> ar,
      rgRefs |-> rr,
      lineStringLayer |-> Layer("LineString", C, st),
      laneletLayer |-> Layer("Lanelet", L, st),
      areaLayer |-> Layer("Area", A, st),
      regulatoryElementLayer |-> Layer("RegulatoryElement", R, st) ] :
    lp \in [C -> SUBSET P],
    lb \in [L -> C \X C],
    lr \in [L -> SUBSET R],
    ao \in [A -> SUBSET C],
    ai \in [A -> InnerBounds(C)],
    ar \in [A -> SUBSET R],
    rr \in [R -> SUBSET C],
    st \in StaleSets(C, L, A, R, n) }

(* Three families of maps: areas over shared curves and points, lanes with
   a rule element, and one primitive of each kind; the first and the last
   with owners that are no longer in their layer. *)
AreaMaps ==
  MapsOver(1..NumPoints, 1..NumCurves, {}, 1..NumAreas, 1..NumRegems, MaxStale)

LaneMaps ==
  UNION {MapsOver({}, 1..LaneCurves, 1..n, {}, 1..NumRegems, 0) : n \in 1..LaneLanelets}

MixedMaps ==
  MapsOver(1..NumPoints, 1..NumEach, 1..NumEach, 1..NumEach, 1..NumEach, MaxStale)

Maps == AreaMaps \cup LaneMaps \cup MixedMaps

CurveIds(m) == DOMAIN m.lsPoints
LaneletIds(m) == DOMAIN m.llBounds
AreaIds(m) == DOMAIN m.arOuter
RegemIds(m) == DOMAIN m.rgRefs

----------------------------------------------------------------------------
(* Reverse lookups and existence checks of the layers. *)

lineStringLayer_findUsagesAny(m, p) == CurveIds(m)

(* ll_Map->lineStringLayer.findUsages(point) *)
lineStringLayer_findUsages(m, p) ==
  {c \in CurveIds(m) : p \in m.lsPoints[c]}

laneletLayer_findUsagesLeftOnly(m, k, i) ==
  IF k = "LineString"
    THEN {l \in LaneletIds(m) : i = m.llBounds[l][1]}
    ELSE {l \in LaneletIds(m) : i \in m.llRegems[l]}

(* ll_Map->laneletLayer.findUsages(linestring | regem) *)
laneletLayer_findUsages(m, k, i) ==
  IF k = "LineString"
    THEN {l \in LaneletIds(m) : i = m.llBounds[l][1] \/ i = m.llBounds[l][2]}
    ELSE {l \in LaneletIds(m) : i \in m.llRegems[l]}

areaLayer_findUsagesOuterOnly(m, k, i) ==
  IF k = "LineString"
    THEN {a \in AreaIds(m) : i \in m.arOuter[a]}
    ELSE {a \in AreaIds(m) : i \in m.arRegems[a]}

(* ll_Map->areaLayer.findUsages(linestring | regem) *)
areaLayer_findUsages(m, k, i) ==
  IF k = "LineString"
    THEN {a \in AreaIds(m) :
            \/ i \in m.arOuter[a]
            \/ \E n \in 1..Len(m.arInner[a]) : i \in m.arInner[a][n]}
    ELSE {a \in AreaIds(m) : i \in m.arRegems[a]}

(* ll_Map->regulatoryElementLayer.findUsages(linestring) *)
regulatoryElementLayer_findUsages(m, c) ==
  {r \in RegemIds(m) : c \in m.rgRefs[r]}

(* ll_Map-><layer>.exists(id) *)
exists(m, k, i) ==
  CASE k = "LineString" -> i \in m.lineStringLayer
    [] k = "Lanelet" -> i \in m.laneletLayer
    [] k = "Area" -> i \in m.areaLayer
    [] k = "RegulatoryElement" -> i \in m.regulatoryElementLayer
    [] OTHER -> FALSE

----------------------------------------------------------------------------
(* struct References: four unordered sets of primitive objects.  An object
   is a handle [id, h]: h tells which object it was obtained from, so two
   lookups hand back different objects for the same id. *)

References == [lss |-> {}, llts |-> {}, areas |-> {}, regems |-> {}]

(* std::hash of a primitive (of the pointee for a regem pointer) *)
hash(x) == x.id

comparatorByObject(prim1, prim2) == prim1 = prim2

(* References::comparator *)
comparator(prim1, prim2) == prim1.id = prim2.id

(* std::unordered_set::insert with the hash and comparator above *)
insert(S, x) ==
  IF \E y \in S : hash(y) = hash(x) /\ comparator(y, x) THEN S ELSE S \cup {x}

Field(k) ==
  CASE k = "LineString" -> "lss"
    [] k = "Lanelet" -> "llts"
    [] k = "Area" -> "areas"
    [] k = "RegulatoryElement" -> "regems"

IdsOf(S) == {x.id : x \in S}

Ids(r) ==
  [lss |-> IdsOf(r.lss), llts |-> IdsOf(r.llts), areas |-> IdsOf(r.areas),
   regems |-> IdsOf(r.regems)]

----------------------------------------------------------------------------
(* The bodies of recurse(): the calls an activation makes, group after group
   in the order of the code, and the insertion it ends with. *)

CallsTo(k, S, d) == {[kind |-> k, id |-> i, dir |-> d] : i \in S}

SeqOfLoops(k, loops, d) == [n \in 1..Len(loops) |-> CallsTo(k, loops[n], d)]

(* recurse(ConstPoint3d): always CHECK_PARENT on the owning line strings *)
PointCalls(m, i, d) ==
  <<CallsTo("LineString", lineStringLayer_findUsages(m, i), CHECK_PARENT)>>

LineStringCallsRevisitingPoints(m, i, d) ==
  IF d = CHECK_CHILD
    THEN <<CallsTo("Point", m.lsPoints[i], d)>>
    ELSE <<CallsTo("Lanelet", laneletLayer_findUsages(m, "LineString", i), CHECK_PARENT),
           CallsTo("Area", areaLayer_findUsages(m, "LineString", i), CHECK_PARENT),
           CallsTo("RegulatoryElement", regulatoryElementLayer_findUsages(m, i), CHECK_PARENT),
           CallsTo("Point", m.lsPoints[i], CHECK_PARENT)>>

(* recurse(ConstLineString3d) *)
LineStringCalls(m, i, d) ==
  IF d = CHECK_CHILD
    THEN <<CallsTo("Point", m.lsPoints[i], d)>>
    ELSE <<CallsTo("Lanelet", laneletLayer_findUsages(m, "LineString", i), CHECK_PARENT),
           CallsTo("Area", areaLayer_findUsages(m, "LineString", i), CHECK_PARENT),
           CallsTo("RegulatoryElement", regulatoryElementLayer_findUsages(m, i), CHECK_PARENT)>>

LaneletCallsRightBoundUp(m, i, d) ==
  IF d = CHECK_CHILD
    THEN <<CallsTo("LineString", {m.llBounds[i][1]}, d),
           CallsTo("LineString", {m.llBounds[i][2]}, CHECK_PARENT),
           CallsTo("RegulatoryElement", m.llRegems[i], d)>>
    ELSE <<>>

(* recurse(ConstLanelet) *)
LaneletCalls(m, i, d) ==
  IF d = CHECK_CHILD
    THEN <<CallsTo("LineString", {m.llBounds[i][1]}, d),
           CallsTo("LineString", {m.llBounds[i][2]}, d),
           CallsTo("RegulatoryElement", m.llRegems[i], d)>>
    ELSE <<>>

(* recurse(ConstArea) *)
AreaCalls(m, i, d) ==
  IF d = CHECK_CHILD
    THEN <<CallsTo("LineString", m.arOuter[i], d)>> \o
         SeqOfLoops("LineString", m.arInner[i], d) \o
         <<CallsTo("RegulatoryElement", m.arRegems[i], d)>>
    ELSE <<>>

(* RecurseVisitor: every primitive the rule refers to, recursed downwards *)
RecurseVisitor(m, i, d) == <<CallsTo("LineString", m.rgRefs[i], d)>>

RegemCallsAreasOnly(m, i, d) ==
  IF d = CHECK_CHILD
    THEN RecurseVisitor(m, i, d)
    ELSE <<CallsTo("Area", areaLayer_findUsages(m, "RegulatoryElement", i), CHECK_PARENT)>>

(* recurse(RegulatoryElementConstPtr) *)
RegemCalls(m, i, d) ==
  IF d = CHECK_CHILD
    THEN RecurseVisitor(m, i, d)
    ELSE <<CallsTo("Lanelet", laneletLayer_findUsages(m, "RegulatoryElement", i), CHECK_PARENT),
           CallsTo("Area", areaLayer_findUsages(m, "RegulatoryElement", i), CHECK_PARENT)>>

Body(m, k, i, d) ==
  CASE k = "Point" -> PointCalls(m, i, d)
    [] k = "LineString" -> LineStringCalls(m, i, d)
    [] k = "Lanelet" -> LaneletCalls(m, i, d)
    [] k = "Area" -> AreaCalls(m, i, d)
    [] k = "RegulatoryElement" -> RegemCalls(m, i, d)

NonEmpty(g) == g # {}

Norm(todo) == SelectSeq(todo, NonEmpty)

LineStringRecordsIgnoringRegems(m, i, d) ==
  /\ d = CHECK_PARENT
  /\ areaLayer_findUsages(m, "LineString", i) = {}
  /\ laneletLayer_findUsages(m, "LineString", i) = {}
  /\ exists(m, "LineString", i)

(* The condition under which the activation inserts its primitive. *)
LineStringRecords(m, i, d) ==
  /\ d = CHECK_PARENT
  /\ areaLayer_findUsages(m, "LineString", i) = {}
  /\ laneletLayer_findUsages(m, "LineString", i) = {}
  /\ regulatoryElementLayer_findUsages(m, i) = {}
  /\ exists(m, "LineString", i)

LaneletRecordsUnchecked(m, i, d) == d = CHECK_PARENT

LaneletRecords(m, i, d) == d = CHECK_PARENT /\ exists(m, "Lanelet", i)

AreaRecords(m, i, d) == d = CHECK_PARENT /\ exists(m, "Area", i)

RegemRecordsOwned(m, i, d) ==
  d = CHECK_PARENT /\ exists(m, "RegulatoryElement", i)

RegemRecords(m, i, d) ==
  /\ d = CHECK_PARENT
  /\ areaLayer_findUsages(m, "RegulatoryElement", i) = {}
  /\ laneletLayer_findUsages(m, "RegulatoryElement", i) = {}
  /\ exists(m, "RegulatoryElement", i)

Records(m, k, i, d) ==
  CASE k = "Point" -> FALSE
    [] k = "LineString" -> LineStringRecords(m, i, d)
    [] k = "Lanelet" -> LaneletRecords(m, i, d)
    [] k = "Area" -> AreaRecords(m, i, d)
    [] k = "RegulatoryElement" -> RegemRecords(m, i, d)

----------------------------------------------------------------------------
(* The call stack machine. *)

Arg == <<"arg", 0>>

Activation(c, h) ==
  [kind |-> c.kind, id |-> c.id, h |-> h, dir |-> c.dir,
   todo |-> Norm(Body(ll_Map, c.kind, c.id, c.dir))]

Top == stack[Len(stack)]

Pop == SubSeq(stack, 1, Len(stack) - 1)

Queries(m) ==
  (CallsTo("Point", m.points, CHECK_PARENT) \cup CallsTo("Point", m.points, CHECK_CHILD)) \cup
  UNION {CallsTo("LineString", CurveIds(m), d) \cup CallsTo("Lanelet", LaneletIds(m), d) \cup
         CallsTo("Area", AreaIds(m), d) \cup CallsTo("RegulatoryElement", RegemIds(m), d) :
         d \in direction}

Init ==
  /\ ll_Map \in Maps
  /\ prim \in Queries(ll_Map)
  /\ stack = <<>>
  /\ rfs = References
  /\ pc = "idle"
  /\ calls = 0
  /\ first = Ids(References)

(* findReferences(prim, ll_Map): a fresh References, recurse with
   CHECK_PARENT.  It is called a second time on the unchanged map. *)
findReferences ==
  /\ prim.dir = CHECK_PARENT
  /\ \/ pc = "idle"
     \/ pc = "done" /\ calls = 1
  /\ rfs' = References
  /\ stack' = <<Activation(prim, Arg)>>
  /\ pc' = "running"
  /\ UNCHANGED <<ll_Map, prim, calls, first>>

(* recurse(prim, ll_Map, CHECK_CHILD, rfs) called on a container *)
recurseChild ==
  /\ prim.dir = CHECK_CHILD
  /\ pc = "idle"
  /\ rfs' = References
  /\ stack' = <<Activation(prim, Arg)>>
  /\ pc' = "running"
  /\ UNCHANGED <<ll_Map, prim, calls, first>>

CallFirstOnly(k) ==
  /\ pc = "running"
  /\ stack # <<>>
  /\ Top.kind = k
  /\ Top.todo # <<>>
  /\ \E c \in Head(Top.todo) :
       LET caller == [Top EXCEPT !.todo = Tail(Top.todo)]
       IN stack' = Append(Append(Pop, caller), Activation(c, <<Top.kind, Top.id>>))
  /\ UNCHANGED <<ll_Map, prim, rfs, pc, calls, first>>

(* The activation on top of the stack makes the next call of its loops. *)
Call(k) ==
  /\ pc = "running"
  /\ stack # <<>>
  /\ Top.kind = k
  /\ Top.todo # <<>>
  /\ \E c \in Head(Top.todo) :
       LET rest == Norm(<<Head(Top.todo) \ {c}>> \o Tail(Top.todo))
           caller == [Top EXCEPT !.todo = rest]
       IN stack' = Append(Append(Pop, caller), Activation(c, <<Top.kind, Top.id>>))
  /\ UNCHANGED <<ll_Map, prim, rfs, pc, calls, first>>

(* The activation on top of the stack has made all its calls: it inserts
   its primitive if the body says so and returns. *)
Return(k) ==
  /\ pc = "running"
  /\ stack # <<>>
  /\ Top.kind = k
  /\ Top.todo = <<>>
  /\ rfs' = IF Records(ll_Map, Top.kind, Top.id, Top.dir)
              THEN [rfs EXCEPT ![Field(k)] = insert(@, [id |-> Top.id, h |-> Top.h])]
              ELSE rfs
  /\ stack' = Pop
  /\ IF Len(stack) = 1
       THEN /\ pc' = "done"
            /\ calls' = calls + 1
            /\ first' = IF calls = 0 THEN Ids(rfs') ELSE first
       ELSE UNCHANGED <<pc, calls, first>>
  /\ UNCHANGED <<ll_Map, prim>>

recursePoint == Call("Point") \/ Return("Point")

recurseLineString == Call("LineString") \/ Return("LineString")

recurseLanelet == Call("Lanelet") \/ Return("Lanelet")

recurseArea == Call("Area") \/ Return("Area")

recurseRegulatoryElement == Call("RegulatoryElement") \/ Return("RegulatoryElement")

Next ==
  \/ findReferences
  \/ recurseChild
  \/ recursePoint
  \/ recurseLineString
  \/ recurseLanelet
  \/ recurseArea
  \/ recurseRegulatoryElement

Spec == Init /\ [][Next]_vars

(* recurse() runs synchronously on one thread: a call that can take a step
   takes it. *)
FairSpec == Init /\ [][Next]_vars /\ WF_vars(Next)

----------------------------------------------------------------------------
(* Containment read off the map, without the lookups. *)

Bounds(m, l) == {m.llBounds[l][1], m.llBounds[l][2]}

AreaCurves(m, a) ==
  m.arOuter[a] \cup UNION {m.arInner[a][n] : n \in 1..Len(m.arInner[a])}

Finished(k, i) ==
  /\ pc = "done"
  /\ prim = [kind |-> k, id |-> i, dir |-> CHECK_PARENT]

Present(m) ==
  /\ m.lineStringLayer = CurveIds(m)
  /\ m.laneletLayer = LaneletIds(m)
  /\ m.areaLayer = AreaIds(m)
  /\ m.regulatoryElementLayer = RegemIds(m)

----------------------------------------------------------------------------
(* C1: in a map where rule element R1 is attached to lane segment L1 only
   and is the only owner of curve c3 (no lane segment or area has c3 as a
   boundary), findReferences(c3) returns laneSegments = {L1} and nothing in
   the other three sets: the ascent goes past R1, which is not recorded. *)

StopLineScenario(m, L1, R1, c3) ==
  /\ Present(m)
  /\ \A l \in LaneletIds(m) : c3 \notin Bounds(m, l) /\ (R1 \in m.llRegems[l] <=> l = L1)
  /\ \A a \in AreaIds(m) : c3 \notin AreaCurves(m, a) /\ R1 \notin m.arRegems[a]
  /\ \A r \in RegemIds(m) : c3 \in m.rgRefs[r] <=> r = R1

C1_StopLineResolvesToLanelet ==
  \A L1 \in LaneletIds(ll_Map), R1 \in RegemIds(ll_Map), c3 \in CurveIds(ll_Map) :
    (Finished("LineString", c3) /\ StopLineScenario(ll_Map, L1, R1, c3))
      => Ids(rfs) = [lss |-> {}, llts |-> {L1}, areas |-> {}, regems |-> {}]

(* The map of the scenario itself: L1 with boundaries c1, c2, and R1 with
   stop line c3, queried for c3. *)
C1_Witness ==
  \E c1, c2, c3 \in CurveIds(ll_Map) :
    /\ c1 # c2 /\ c1 # c3 /\ c2 # c3
    /\ LaneletIds(ll_Map) = {1} /\ RegemIds(ll_Map) = {1} /\ AreaIds(ll_Map) = {}
    /\ ll_Map.llBounds[1] = <<c1, c2>>
    /\ ll_Map.rgRefs[1] = {c3}
    /\ StopLineScenario(ll_Map, 1, 1, c3)
    /\ Finished("LineString", c3)
    /\ IdsOf(rfs.llts) = {1}

----------------------------------------------------------------------------
(* C2 as stated: every lane segment the lookup reports for curve c is in
   the laneSegments of findReferences(c). *)
C2_EveryReportedOwnerReturned ==
  \A c \in CurveIds(ll_Map), L \in LaneletIds(ll_Map) :
    (Finished("LineString", c) /\ c \in Bounds(ll_Map, L)) => L \in IdsOf(rfs.llts)

(* C2: every lane segment the lookup reports for curve c and that exists in
   the lane segment layer is in the laneSegments of findReferences(c). *)
C2_EveryExistingOwnerReturned ==
  \A c \in CurveIds(ll_Map), L \in LaneletIds(ll_Map) :
    (Finished("LineString", c) /\ c \in Bounds(ll_Map, L) /\ L \in ll_Map.laneletLayer)
      => L \in IdsOf(rfs.llts)

C2_Witness ==
  \E c \in CurveIds(ll_Map), L \in LaneletIds(ll_Map) :
    /\ Finished("LineString", c)
    /\ ll_Map.llBounds[L][2] = c /\ ll_Map.llBounds[L][1] # c
    /\ L \in ll_Map.laneletLayer
    /\ L \in IdsOf(rfs.llts)

----------------------------------------------------------------------------
(* C3: when curve c is a boundary of lane segment L1 and is referenced by
   rule element R1 attached to another lane segment L2, the laneSegments of
   findReferences(c) hold L1 and L2 once each, and neither c nor R1 is
   recorded. *)

Once(S, i) == Cardinality({x \in S : x.id = i}) = 1

CrossPathScenario(m, c, L1, L2, R1) ==
  /\ L1 # L2
  /\ c \in Bounds(m, L1)
  /\ c \in m.rgRefs[R1]
  /\ R1 \in m.llRegems[L2]
  /\ {L1, L2} \subseteq m.laneletLayer

C3_CrossPathDeduplication ==
  \A c \in CurveIds(ll_Map), L1 \in LaneletIds(ll_Map), L2 \in LaneletIds(ll_Map),
     R1 \in RegemIds(ll_Map) :
    (Finished("LineString", c) /\ CrossPathScenario(ll_Map, c, L1, L2, R1))
      => /\ Once(rfs.llts, L1)
         /\ Once(rfs.llts, L2)
         /\ c \notin IdsOf(rfs.lss)
         /\ R1 \notin IdsOf(rfs.regems)

(* L2 is reached through R1 only, L1 from c directly. *)
C3_Witness ==
  \E c \in CurveIds(ll_Map), L1 \in LaneletIds(ll_Map), L2 \in LaneletIds(ll_Map),
     R1 \in RegemIds(ll_Map) :
    /\ Finished("LineString", c)
    /\ CrossPathScenario(ll_Map, c, L1, L2, R1)
    /\ c \notin Bounds(ll_Map, L2)
    /\ R1 \notin ll_Map.llRegems[L1]
    /\ IdsOf(rfs.llts) = {L1, L2}

----------------------------------------------------------------------------
(* C4: in every state no two objects of one result set have the same id,
   also when an entity is inserted through several paths and the lookups
   hand back different objects for it. *)

NoTwoWithSameId(S) == \A x \in S, y \in S : x.id = y.id => x = y

----------------------------------------------------------------------------
(* C5: in every state of a traversal every id in a result set exists in
   the layer of its kind; an owner that a lookup reports but that is not in
   its layer is left out and the traversal still finishes. *)

C5_OnlyExistingRecorded ==
  /\ IdsOf(rfs.lss) \subseteq ll_Map.lineStringLayer
  /\ IdsOf(rfs.llts) \subseteq ll_Map.laneletLayer
  /\ IdsOf(rfs.areas) \subseteq ll_Map.areaLayer
  /\ IdsOf(rfs.regems) \subseteq ll_Map.regulatoryElementLayer

C5_Witness ==
  \E c \in CurveIds(ll_Map), L \in LaneletIds(ll_Map) :
    /\ Finished("LineString", c)
    /\ c \in Bounds(ll_Map, L)
    /\ L \notin ll_Map.laneletLayer
    /\ L \notin IdsOf(rfs.llts)

----------------------------------------------------------------------------
(* C6: every curve in the curves result set has no owning lane segment, no
   owning area and no owning rule element in the map. *)

FreeStanding(m, c) ==
  /\ \A l \in LaneletIds(m) : c \notin Bounds(m, l)
  /\ \A a \in AreaIds(m) : c \notin AreaCurves(m, a)
  /\ \A r \in RegemIds(m) : c \notin m.rgRefs[r]

C6_RecordedCurvesAreFreeStanding ==
  \A c \in IdsOf(rfs.lss) : FreeStanding(ll_Map, c)

(* A curve reached from one of its points was recorded, in a map where
   another curve is owned by a rule element only. *)
C6_Witness ==
  /\ pc = "done"
  /\ prim.kind = "Point"
  /\ rfs.lss # {}
  /\ \E c \in CurveIds(ll_Map), r \in RegemIds(ll_Map) :
       /\ c \in ll_Map.rgRefs[r]
       /\ prim.id \in ll_Map.lsPoints[c]
       /\ \A l \in LaneletIds(ll_Map) : c \notin Bounds(ll_Map, l)
       /\ \A a \in AreaIds(ll_Map) : c \notin AreaCurves(ll_Map, a)

----------------------------------------------------------------------------
(* C7: findReferences on a point that no curve of the map contains leaves
   all four result sets empty. *)

Orphan(m, p) == \A c \in CurveIds(m) : p \notin m.lsPoints[c]

C7_OrphanPointYieldsNothing ==
  (prim.kind = "Point" /\ prim.dir = CHECK_PARENT /\ Orphan(ll_Map, prim.id))
    => rfs = References

(* The query of an orphan point has returned, in a map with a free-standing
   curve that exists. *)
C7_Witness ==
  /\ pc = "done"
  /\ prim.kind = "Point" /\ prim.dir = CHECK_PARENT
  /\ Orphan(ll_Map, prim.id)
  /\ \E c \in ll_Map.lineStringLayer : FreeStanding(ll_Map, c)
  /\ rfs = References

----------------------------------------------------------------------------
(* C8: the second findReferences call on the unchanged map returns the same
   ids in each of the four sets as the first, whatever order the lookups
   enumerate the owners in. *)

C8_SecondCallAgrees ==
  (pc = "done" /\ calls = 2) => Ids(rfs) = first

(* Both calls have returned on a curve with two owning lane segments, whose
   order of enumeration is free, and the objects kept differ from the ids. *)
C8_Witness ==
  /\ pc = "done" /\ calls = 2
  /\ prim.kind = "LineString"
  /\ Cardinality(rfs.llts) = 2
  /\ Ids(rfs) = first

----------------------------------------------------------------------------
(* C9: in a traversal entered by findReferences every activation runs with
   CHECK_PARENT, every nested call is on a strictly higher layer than its
   caller (Point, LineString, RegulatoryElement, then Lanelet or Area), so a
   chain makes at most four layer transitions, and the call returns. *)

Ascends(from) ==
  \A n \in from..Len(stack) - 1 :
    /\ Rank(stack[n].kind) < Rank(stack[n + 1].kind)
    /\ stack[n + 1].dir = CHECK_PARENT

UpwardChain ==
  /\ Len(stack) - 1 <= 4
  /\ \A n \in 1..Len(stack) : stack[n].dir = CHECK_PARENT
  /\ Ascends(1)

C9_UpwardWalkAscendsAndReturns ==
  /\ [](prim.dir = CHECK_PARENT => UpwardChain)
  /\ []((prim.dir = CHECK_PARENT /\ pc = "running") => <>(pc = "done"))

(* The longest chain: a point, its curve, the rule element referring to the
   curve, the lane segment the rule is attached to. *)
C9_Witness ==
  /\ prim.kind = "Point" /\ prim.dir = CHECK_PARENT
  /\ Len(stack) = 4
  /\ stack[3].kind = "RegulatoryElement"
  /\ stack[4].kind = "Lanelet"

----------------------------------------------------------------------------
(* C10 as stated: a recursion entered with CHECK_CHILD on a curve, lane
   segment, area or rule element never switches to CHECK_PARENT and never
   makes a reverse lookup (every activation runs with CHECK_CHILD). *)

EnteredDown == prim.dir = CHECK_CHILD /\ prim.kind # "Point"

DownThenUp(k) ==
  /\ \A n \in 1..k : stack[n].dir = CHECK_CHILD
  /\ \A n \in 1..k - 1 : Rank(stack[n].kind) > Rank(stack[n + 1].kind)
  /\ k < Len(stack) => stack[k].kind = "Point"
  /\ Ascends(k)

----------------------------------------------------------------------------
(* C11: findReferences(c) on a curve c, with LS, AS, RS the lane segments,
   areas and rule elements that own c, returns as laneSegments the members
   of LS in their layer and the lane segments in their layer that own a
   rule of RS, as areas the same for AS, as regulatoryElements the rules of
   RS in their layer without owning lane segment or area, and as curves c
   alone if LS, AS and RS are empty and c is in its layer, nothing else. *)

OwningLanelets(m, c) == {l \in LaneletIds(m) : c \in Bounds(m, l)}

OwningAreas(m, c) == {a \in AreaIds(m) : c \in AreaCurves(m, a)}

OwningRegems(m, c) == {r \in RegemIds(m) : c \in m.rgRefs[r]}

ExpectedOfCurve(m, c) ==
  LET LS == OwningLanelets(m, c)
      AS == OwningAreas(m, c)
      RS == OwningRegems(m, c)
  IN [lss |-> IF LS = {} /\ AS = {} /\ RS = {} /\ c \in m.lineStringLayer
                THEN {c} ELSE {},
      llts |-> (LS \cap m.laneletLayer) \cup
               {l \in m.laneletLayer : \E r \in RS : r \in m.llRegems[l]},
      areas |-> (AS \cap m.areaLayer) \cup
                {a \in m.areaLayer : \E r \in RS : r \in m.arRegems[a]},
      regems |-> {r \in RS \cap m.regulatoryElementLayer :
                    /\ \A l \in LaneletIds(m) : r \notin m.llRegems[l]
                    /\ \A a \in AreaIds(m) : r \notin m.arRegems[a]}]

C11_ExactResultOfCurveQuery ==
  \A c \in CurveIds(ll_Map) :
    Finished("LineString", c) => Ids(rfs) = ExpectedOfCurve(ll_Map, c)

(* The only owning lane segment of c is not in its layer, and an area that
   does not own c is returned because it owns a rule referring to c. *)
C11_Witness ==
  \E c \in CurveIds(ll_Map), a \in AreaIds(ll_Map) :
    /\ Finished("LineString", c)
    /\ OwningLanelets(ll_Map, c) # {}
    /\ OwningLanelets(ll_Map, c) \cap ll_Map.laneletLayer = {}
    /\ a \notin OwningAreas(ll_Map, c)
    /\ \E r \in OwningRegems(ll_Map, c) : r \in ll_Map.arRegems[a]
    /\ Ids(rfs) = [lss |-> {}, llts |-> {}, areas |-> {a}, regems |-> {}]

====
